---- MODULE Spec2Model ----
(***************************************************************************)
(* Alert dispatch (automation/alerting/alert_manager.py) and automated     *)
(* remediation (automation/healing/auto_remediation.py).                   *)
(*                                                                         *)
(* Three specifications share the module:                                  *)
(*   Spec     - AlertManager with send_alert run as one step per call, the *)
(*              retry thread as scan + one send per scanned alert;         *)
(*   SpecConc - AlertManager.send_alert run statement by statement by      *)
(*              several threads (the code takes no lock);                  *)
(*   SpecRem  - AutoRemediation.                                           *)
(***************************************************************************)
EXTENDS Integers, Sequences, FiniteSets, TLC

VARIABLES
    now,              \* time.time()
    channels,         \* AlertManager.channels (built once by _initialize_channels)
    alert_history,    \* AlertManager.alert_history (alert instances, by name)
    dedupe_cache,     \* AlertManager.dedupe_cache : dedupe_key -> time
    alert_count,      \* AlertManager.alert_count
    last_reset,       \* AlertManager.last_reset
    delivery_attempts,\* Alert.delivery_attempts, per alert instance
    delivered,        \* Alert.delivered, per alert instance
    retry_wake,       \* time at which the retry thread's sleep ends
    failed_alerts,    \* the retry thread's local list still to be sent
    retry_thread,     \* whether the retry thread is running or has died of an exception
    ev,               \* observation: the last send_alert call and its outcome
    win_accepted,     \* observation: history appends since the last counter reset
    accepts,          \* observation (SpecConc): (dedupe_key, time) of every accepted send
    eligible_sends,   \* observation: retry sends, not dropped by the rate limit, of an
                      \* alert since it had one retry left
    pc,               \* SpecConc: per thread, the statement of send_alert it is at
    loc,              \* SpecConc: per thread, send_alert's locals (alert, current_time)
    actions,          \* AutoRemediation.actions, the catalog
    approval_callbacks, \* AutoRemediation.approval_callbacks : severity -> callback
    execution_history,  \* AutoRemediation.execution_history
    deployment,       \* the cluster: the issue's deployment, [exists, replicas]
    pod_exists,       \* the cluster: whether the issue's pod exists
    breaker_enabled,  \* the circuit-breaker API: the breaker of the issue's dependency
    rem,              \* observation: the last remediate call and its outcome
    templates,        \* AlertIntegration.templates: the names of the configured templates
    call              \* observation: the last send_*_alert call of AlertIntegration

alertVars == <<now, channels, alert_history, dedupe_cache, alert_count, last_reset,
               delivery_attempts, delivered, retry_wake, failed_alerts, retry_thread,
               ev, win_accepted, accepts, eligible_sends>>
concVars == <<pc, loc>>
remVars == <<actions, approval_callbacks, execution_history, deployment, pod_exists,
             breaker_enabled, rem>>
intVars == <<templates, call>>

-----------------------------------------------------------------------------
(* Bounds of the model and configuration values *)

MaxHistory == 3         \* sends are modelled while the history is shorter
dedupe_window == 2      \* config "dedupe_window_seconds"
rate_limit == 2         \* config "rate_limit"
rate_limit_window == 60
retry_interval == 1     \* config "retry_interval_seconds"
max_retries == 3        \* config "max_retries"

(* The instants at which the clock is read: around the dedupe window and
   around the end of the first rate-limit window. *)
Times == {0, 1, 2, 60, 61}

-----------------------------------------------------------------------------
(* Alerts: instances with their immutable attributes *)

Alerts == {"a1", "a2", "a3", "a4"}

(* The alert instances that AlertTemplate.create_alert builds: no dedupe_key
   is passed, and the timestamp is the clock at the moment of the call.  The
   d-instances are four alerts of one template with the same source and the
   same title, built at 0, 1, 59 and 60. *)
TemplateAlerts == {"d0", "d1", "d59", "d60", "p1", "h59", "s60"}

AllAlerts == Alerts \cup TemplateAlerts

(* the key built from the source and the title alone *)
default_dedupe_key_without_minute(source, title, timestamp) ==
    <<source, ":", title>>

(* timestamp.strftime('%Y%m%d%H%M'): the timestamp cut down to its minute;
   timestamps are counted in seconds *)
strftime_minute(timestamp) == timestamp \div 60

(* Alert.__init__, the key of an alert built without dedupe_key:
   f"{source}:{title}:{timestamp.strftime('%Y%m%d%H%M')}" *)
default_dedupe_key(source, title, timestamp) ==
    <<source, ":", title, ":", strftime_minute(timestamp)>>

(* Alert(title=..., severity=..., source=..., tags=...) with timestamp and
   dedupe_key left to their defaults *)
TemplateAlert(title, severity, source, tags, timestamp) ==
    [dedupe_key |-> default_dedupe_key(source, title, timestamp),
     severity |-> severity, source |-> source, tags |-> tags,
     title |-> title, timestamp |-> timestamp]

AlertAttr(a) ==
    CASE a = "a1" -> [dedupe_key |-> "k1", severity |-> "critical", source |-> "s1", tags |-> {"t1"}]
      [] a = "a2" -> [dedupe_key |-> "k1", severity |-> "warning",  source |-> "s2", tags |-> {}]
      [] a = "a3" -> [dedupe_key |-> "k2", severity |-> "warning",  source |-> "s1", tags |-> {"t2"}]
      [] a = "a4" -> [dedupe_key |-> "k3", severity |-> "info",     source |-> "s2", tags |-> {}]
      [] a = "d0"  -> TemplateAlert("anomaly in s1", "critical", "s1", {"t1"}, 0)
      [] a = "d1"  -> TemplateAlert("anomaly in s1", "critical", "s1", {"t1"}, 1)
      [] a = "d59" -> TemplateAlert("anomaly in s1", "critical", "s1", {"t1"}, 59)
      [] a = "d60" -> TemplateAlert("anomaly in s1", "critical", "s1", {"t1"}, 60)
      [] a = "p1"  -> TemplateAlert("prediction for s2", "warning", "s2", {}, 1)
      [] a = "h59" -> TemplateAlert("health of s1", "warning", "s1", {"t2"}, 59)
      [] a = "s60" -> TemplateAlert("security event in s2", "info", "s2", {}, 60)

(* Channel configurations as _initialize_channels builds them.  A filter that
   is not configured is None, written here as the empty set: the code tests
   the filter's truthiness, which is the same for None and for [].
   config_keys is whether channel_config["config"] holds the keys that the
   sender's constructor reads; _initialize_channels does not look into it. *)
Chan(type, name, enabled, sev, src, tag, config_keys) ==
    [channel_type |-> type, name |-> name, enabled |-> enabled,
     severity_filter |-> sev, source_filter |-> src, tag_filter |-> tag,
     config_keys |-> config_keys]

ChannelConfigs ==
    { << Chan("slack",     "chat",  TRUE,  {"critical"}, {},     {},     TRUE),
         Chan("pagerduty", "pager", FALSE, {},           {},     {},     TRUE),
         Chan("email",     "mail",  TRUE,  {},           {"s1"}, {"t1"}, TRUE),
         Chan("webhook",   "hook",  TRUE,  {},           {},     {},     TRUE) >>,
      << Chan("slack",     "chat",  TRUE,  {"critical"}, {},     {},     TRUE),
         Chan("webhook",   "hook",  TRUE,  {},           {"s1"}, {"t2"}, TRUE) >>,
      << Chan("webhook",   "hook",  TRUE,  {},           {"s1"}, {},     FALSE) >> }

-----------------------------------------------------------------------------
(* the severity filter forgotten *)
should_receive_alert_no_severity(channel, a) ==
    IF ~channel.enabled THEN FALSE
    ELSE IF channel.source_filter # {}
            /\ AlertAttr(a).source \notin channel.source_filter THEN FALSE
    ELSE IF channel.tag_filter # {}
            /\ ~(\E tag \in channel.tag_filter : tag \in AlertAttr(a).tags) THEN FALSE
    ELSE TRUE

(* AlertChannelConfig.should_receive_alert *)
should_receive_alert(channel, a) ==
    IF ~channel.enabled THEN FALSE
    ELSE IF channel.severity_filter # {}
            /\ AlertAttr(a).severity \notin channel.severity_filter THEN FALSE
    ELSE IF channel.source_filter # {}
            /\ AlertAttr(a).source \notin channel.source_filter THEN FALSE
    ELSE IF channel.tag_filter # {}
            /\ ~(\E tag \in channel.tag_filter : tag \in AlertAttr(a).tags) THEN FALSE
    ELSE TRUE

(* What the network does to one send_alert call: for each sender type that an
   enabled channel uses, whether its HTTP post succeeds.
   EmailAlertSender.send only logs and returns True. *)
Outcomes ==
    [{channels[i].channel_type :
         i \in {j \in 1..Len(channels) :
                   channels[j].enabled /\ channels[j].channel_type # "email"}}
      -> BOOLEAN]

sender_send(channel, o) ==
    IF channel.channel_type = "email" THEN TRUE ELSE o[channel.channel_type]

(* AlertManager._get_sender_for_channel: a sender for each of the four
   channel types, None for anything else. *)
has_sender(channel) ==
    channel.channel_type \in {"slack", "pagerduty", "email", "webhook"}

(* _get_sender_for_channel reads channel.config["webhook_url"] and the like
   with no default: a KeyError when the key is not there *)
get_sender_raises(channel) == has_sender(channel) /\ ~channel.config_keys

(* the window's end counted as inside the window *)
is_duplicate_inclusive(a, cache, t) ==
    IF AlertAttr(a).dedupe_key \in DOMAIN cache
    THEN t - cache[AlertAttr(a).dedupe_key] <= dedupe_window
    ELSE FALSE

(* the window comparison turned round *)
is_duplicate_flipped(a, cache, t) ==
    IF AlertAttr(a).dedupe_key \in DOMAIN cache
    THEN t - cache[AlertAttr(a).dedupe_key] > dedupe_window
    ELSE FALSE

(* no alert taken as a duplicate *)
is_duplicate_never(a, cache, t) == FALSE

(* AlertManager._is_duplicate, reading the clock at time t *)
is_duplicate(a, cache, t) ==
    IF AlertAttr(a).dedupe_key \in DOMAIN cache
    THEN t - cache[AlertAttr(a).dedupe_key] < dedupe_window
    ELSE FALSE

(* send_alert, "Check rate limit": the window test and the limit test *)
window_elapsed(current_time, reset_time) ==
    current_time - reset_time > rate_limit_window

(* the limit test off by one *)
limit_reached_off_by_one(count) == count > rate_limit

limit_reached(count) == count >= rate_limit

(* send_alert, "Send to channels": the loop over self.channels from index i on.
   st carries the local `sent` and the alert's two delivery fields; invoked and
   succeeded record which senders were called and which returned True. *)
(* `sent` set for a matched channel whatever its sender returned *)
channel_result_sent_always(st, name, success) ==
    IF success
    THEN [st EXCEPT !.sent = TRUE, !.delivered = TRUE,
                    !.invoked = @ \cup {name}, !.succeeded = @ \cup {name}]
    ELSE [st EXCEPT !.sent = TRUE, !.delivery_attempts = @ + 1,
                    !.invoked = @ \cup {name}]

(* the attempts counted from 0 again after a success *)
channel_result_resets_attempts(st, name, success) ==
    IF success
    THEN [st EXCEPT !.sent = TRUE, !.delivered = TRUE, !.delivery_attempts = 0,
                    !.invoked = @ \cup {name}, !.succeeded = @ \cup {name}]
    ELSE [st EXCEPT !.delivery_attempts = @ + 1, !.invoked = @ \cup {name}]

(* send_alert, lines 553-558: what one sender's result does to the call *)
channel_result(st, name, success) ==
    IF success
    THEN [st EXCEPT !.sent = TRUE, !.delivered = TRUE,
                    !.invoked = @ \cup {name}, !.succeeded = @ \cup {name}]
    ELSE [st EXCEPT !.delivery_attempts = @ + 1, !.invoked = @ \cup {name}]

RECURSIVE send_to_channels(_, _, _, _)
send_to_channels(i, a, o, st) ==
    IF i > Len(channels) THEN st
    ELSE IF should_receive_alert(channels[i], a) /\ get_sender_raises(channels[i])
    THEN [st EXCEPT !.raised = TRUE]
    ELSE IF should_receive_alert(channels[i], a) /\ has_sender(channels[i])
    THEN send_to_channels(i + 1, a, o,
             channel_result(st, channels[i].name, sender_send(channels[i], o)))
    ELSE send_to_channels(i + 1, a, o, st)

put(cache, key, t) ==
    [k \in DOMAIN cache \cup {key} |-> IF k = key THEN t ELSE cache[k]]

NoEvent ==
    [op |-> "none", by |-> "none", alert |-> "none", t |-> 0, window_reset |-> FALSE,
     pre_count |-> 0, pre_win |-> 0, pre_seen |-> FALSE, pre_seen_at |-> 0, pre_len |-> 0,
     pre_attempts |-> 0, pre_delivered |-> FALSE,
     outcome |-> "none", result |-> FALSE, raised |-> FALSE,
     invoked |-> {}, succeeded |-> {}, limit |-> 0, returned |-> <<>>]

(* The observation of one call: what the call saw on entry *)
Entry(a, by) ==
    [NoEvent EXCEPT
        !.op = "send", !.by = by, !.alert = a, !.t = now,
        !.window_reset = (now - last_reset > rate_limit_window),
        !.pre_count = alert_count,
        !.pre_win = win_accepted,
        !.pre_seen = (AlertAttr(a).dedupe_key \in DOMAIN dedupe_cache),
        !.pre_seen_at = IF AlertAttr(a).dedupe_key \in DOMAIN dedupe_cache
                        THEN dedupe_cache[AlertAttr(a).dedupe_key] ELSE 0,
        !.pre_len = Len(alert_history),
        !.pre_attempts = delivery_attempts[a],
        !.pre_delivered = delivered[a]]

(* an alert entered in the history once, however often it is accepted *)
history_append_once(history, a) ==
    IF \E i \in 1..Len(history) : history[i] = a THEN history ELSE Append(history, a)

(* self.alert_history.append(alert), line 542 *)
history_append(history, a) == Append(history, a)

(* the duplicate check made before the rate check *)
gate_dedupe_first(count, a, cache, t) ==
    IF is_duplicate(a, cache, t) THEN "duplicate"
    ELSE IF limit_reached(count) THEN "rate_limited"
    ELSE "accepted"

(* The two checks of send_alert in the order of the code: the rate limit
   (lines 529-531), then the dedupe cache (lines 534-536) *)
gate(count, a, cache, t) ==
    IF limit_reached(count) THEN "rate_limited"
    ELSE IF is_duplicate(a, cache, t) THEN "duplicate"
    ELSE "accepted"

(* the counter incremented by every call that passes the rate check *)
count_after_rate_check(count, outcome) ==
    IF outcome # "rate_limited" THEN count + 1 ELSE count

(* self.alert_count += 1, reached only by an accepted alert *)
count_after(count, outcome) ==
    IF outcome = "accepted" THEN count + 1 ELSE count

(* the entry refreshed by a duplicate as well *)
cache_after_refreshing(cache, a, outcome, t) ==
    IF outcome # "rate_limited" THEN put(cache, AlertAttr(a).dedupe_key, t) ELSE cache

(* self.dedupe_cache[alert.dedupe_key] = current_time, line 539, reached only
   by an accepted alert *)
cache_after(cache, a, outcome, t) ==
    IF outcome = "accepted" THEN put(cache, AlertAttr(a).dedupe_key, t) ELSE cache

(* AlertManager.send_alert(alert), the whole call, with the clock read once.
   o is what the senders' endpoints answer during the call.  outcome is what
   the gate decided; raised is whether the call ended in an exception instead
   of returning, and result is the value returned if it did return. *)
send_alert(a, by, o) ==
    LET current_time == now
        elapsed == window_elapsed(current_time, last_reset)
        count == IF elapsed THEN 0 ELSE alert_count
        outcome == gate(count, a, dedupe_cache, current_time)
        st0 == [sent |-> FALSE, delivered |-> delivered[a],
                delivery_attempts |-> delivery_attempts[a], raised |-> FALSE,
                invoked |-> {}, succeeded |-> {}]
        st == send_to_channels(1, a, o, st0)
    IN  /\ alert_count' = count_after(count, outcome)
        /\ last_reset' = IF elapsed THEN current_time ELSE last_reset
        /\ win_accepted' = (IF elapsed THEN 0 ELSE win_accepted)
                           + (IF outcome = "accepted" THEN 1 ELSE 0)
        /\ dedupe_cache' = cache_after(dedupe_cache, a, outcome, current_time)
        /\ IF outcome # "accepted"
           THEN /\ ev' = [Entry(a, by) EXCEPT !.outcome = outcome, !.result = FALSE]
                /\ UNCHANGED <<alert_history, delivery_attempts, delivered>>
           ELSE /\ alert_history' = history_append(alert_history, a)
                /\ delivered' = [delivered EXCEPT ![a] = st.delivered]
                /\ delivery_attempts' = [delivery_attempts EXCEPT ![a] = st.delivery_attempts]
                /\ ev' = [Entry(a, by) EXCEPT !.outcome = "accepted",
                                              !.result = (st.sent /\ ~st.raised),
                                              !.raised = st.raised,
                                              !.invoked = st.invoked,
                                              !.succeeded = st.succeeded]

in_history(a) == \E i \in 1..Len(alert_history) : alert_history[i] = a

(* An API handler calls send_alert with the alert it has built.  An alert
   instance that is already in the history is sent again by the retry thread
   only. *)
Send(a) ==
    /\ ~in_history(a)
    /\ \E o \in Outcomes : send_alert(a, "api", o)
    /\ Len(alert_history') <= MaxHistory
    /\ UNCHANGED <<now, channels, retry_wake, failed_alerts, retry_thread,
                   eligible_sends, accepts>>

(* _retry_failed_alerts: the sleep has ended, the failed alerts are collected *)
is_failed(a) == ~delivered[a] /\ delivery_attempts[a] < max_retries

RetryScan ==
    /\ retry_thread = "running"
    /\ failed_alerts = <<>>
    /\ now >= retry_wake
    /\ failed_alerts' = SelectSeq(alert_history, is_failed)
    /\ retry_wake' = IF SelectSeq(alert_history, is_failed) = <<>>
                     THEN now + retry_interval ELSE retry_wake
    /\ UNCHANGED <<now, channels, alert_history, dedupe_cache, alert_count, last_reset,
                   delivery_attempts, delivered, retry_thread,
                   ev, win_accepted, accepts, eligible_sends>>

(* _retry_failed_alerts: the loop body, send_alert for the next collected
   alert.  Nothing in the loop catches an exception of send_alert: it ends
   the thread. *)
OneRetryLeft(a) ==
    /\ in_history(a)
    /\ ~delivered[a]
    /\ delivery_attempts[a] = max_retries - 1

RetrySend ==
    /\ retry_thread = "running"
    /\ failed_alerts # <<>>
    /\ \E o \in Outcomes : send_alert(Head(failed_alerts), "retry", o)
    /\ Len(alert_history') <= MaxHistory
    /\ retry_thread' = IF ev'.raised THEN "dead" ELSE "running"
    /\ failed_alerts' = IF ev'.raised THEN <<>> ELSE Tail(failed_alerts)
    /\ retry_wake' = IF Tail(failed_alerts) = <<>> /\ ~ev'.raised
                     THEN now + retry_interval ELSE retry_wake
    /\ eligible_sends' =
         [eligible_sends EXCEPT ![Head(failed_alerts)] =
             IF /\ ev'.outcome # "rate_limited"
                /\ (@ > 0 \/ OneRetryLeft(Head(failed_alerts)))
             THEN (IF @ < 2 THEN @ + 1 ELSE @)
             ELSE @]
    /\ UNCHANGED <<now, channels, accepts>>

(* time passes *)
Tick ==
    /\ \E t \in Times : t > now /\ now' = t
    /\ UNCHANGED <<channels, alert_history, dedupe_cache, alert_count, last_reset,
                   delivery_attempts, delivered, retry_wake, failed_alerts, retry_thread,
                   ev, win_accepted, accepts, eligible_sends>>

(* Alert.to_dict *)
to_dict(a) ==
    [id |-> a, severity |-> AlertAttr(a).severity, source |-> AlertAttr(a).source,
     tags |-> AlertAttr(a).tags, dedupe_key |-> AlertAttr(a).dedupe_key]

(* list[start:], as Python computes it: a negative start counts from the end
   and is clamped to the beginning, a start past the end gives the empty list *)
slice_from(list, start) ==
    LET from == IF start < 0
                THEN (IF start + Len(list) < 0 THEN 0 ELSE start + Len(list))
                ELSE (IF start > Len(list) THEN Len(list) ELSE start)
    IN  SubSeq(list, from + 1, Len(list))

(* AlertManager.get_alert_history(limit) *)
get_alert_history(limit) ==
    LET last == slice_from(alert_history, 0 - limit)
    IN  [i \in 1..Len(last) |-> to_dict(last[i])]

MaxLimit == 4           \* get_alert_history is called with limits up to this

GetAlertHistory ==
    /\ \E limit \in 0..MaxLimit :
          ev' = [NoEvent EXCEPT !.op = "get_alert_history", !.limit = limit,
                               !.pre_len = Len(alert_history),
                               !.returned = get_alert_history(limit)]
    /\ UNCHANGED <<now, channels, alert_history, dedupe_cache, alert_count, last_reset,
                   delivery_attempts, delivered, retry_wake, failed_alerts, retry_thread,
                   win_accepted, accepts, eligible_sends>>

(* AlertManager.__init__ *)
AlertFields ==
    /\ now = 0
    /\ alert_history = <<>>
    /\ dedupe_cache = << >>
    /\ alert_count = 0
    /\ last_reset = 0
    /\ delivery_attempts = [a \in AllAlerts |-> 0]
    /\ delivered = [a \in AllAlerts |-> FALSE]
    /\ retry_wake = retry_interval
    /\ failed_alerts = <<>>
    /\ retry_thread = "running"
    /\ ev = NoEvent
    /\ win_accepted = 0
    /\ accepts = <<>>
    /\ eligible_sends = [a \in AllAlerts |-> 0]

-----------------------------------------------------------------------------
(* AlertIntegration: the send_*_alert operations build an alert from a
   configured template and hand it to AlertManager.send_alert. *)

(* The template names the operations ask for, one per operation modelled:
   send_anomaly_alert, send_predictive_alert, send_service_health_alert,
   send_security_alert *)
TemplateNames == {"anomaly", "predictive", "service_health", "security"}

(* The 'templates' section of the configuration file *)
TemplateConfigs ==
    { {"anomaly", "predictive"},
      {"anomaly", "service_health", "security"} }

(* AlertTemplate.create_alert: the alert takes its severity and tags from the
   template; this is the template whose alerts an alert instance is one of *)
TemplateOf(a) ==
    CASE a \in {"d0", "d1", "d59", "d60"} -> "anomaly"
      [] a = "p1" -> "predictive"
      [] a = "h59" -> "service_health"
      [] a = "s60" -> "security"

NoCall == [template |-> "none", found |-> FALSE, returned |-> FALSE, raised |-> FALSE]

(* every template taken as configured *)
template_registered_always(name) == TRUE

(* template = self.templates.get(name); if not template *)
template_registered(name) == name \in templates

(* send_anomaly_alert and the operations of the same shape *)
send_template_alert(name) ==
    IF ~template_registered(name)
    THEN /\ call' = [NoCall EXCEPT !.template = name]
         /\ UNCHANGED alertVars
    ELSE \E a \in TemplateAlerts :
            /\ TemplateOf(a) = name
            /\ AlertAttr(a).timestamp = now
            /\ Send(a)
            /\ call' = [template |-> name, found |-> TRUE,
                        returned |-> ev'.result, raised |-> ev'.raised]

(* The instants at which the integration layer is called: inside one minute
   and on both sides of the end of that minute *)
IntTimes == {0, 1, 59, 60}

IntTick ==
    /\ \E t \in IntTimes : t > now /\ now' = t
    /\ UNCHANGED <<channels, alert_history, dedupe_cache, alert_count, last_reset,
                   delivery_attempts, delivered, retry_wake, failed_alerts, retry_thread,
                   ev, win_accepted, accepts, eligible_sends>>

IntegrationSend ==
    /\ \E name \in TemplateNames : send_template_alert(name)
    /\ UNCHANGED templates

(* AlertIntegration.__init__ *)
IntInit ==
    /\ templates \in TemplateConfigs
    /\ call = NoCall

IntIdle ==
    /\ templates = {}
    /\ call = NoCall

-----------------------------------------------------------------------------
(* send_alert statement by statement.  The code takes no lock (threading is
   used only to start the retry thread), so the statements of two calls
   interleave; the labels are the source lines of send_alert.  Every thread
   runs the same send_alert, whether it is an API handler or the retry
   thread. *)

Threads == {"h1", "h2"}

(* The alert instances each handler builds and sends *)
ThreadAlerts(th) == IF th = "h1" THEN {"a1", "a3"} ELSE {"a2", "a4"}

NoLocals == [alert |-> "none", current_time |-> 0, count |-> 0]

sharedUnchanged(touched) ==
    /\ ("alert_count" \in touched \/ UNCHANGED alert_count)
    /\ ("last_reset" \in touched \/ UNCHANGED last_reset)
    /\ ("dedupe_cache" \in touched \/ UNCHANGED dedupe_cache)
    /\ ("alert_history" \in touched \/ UNCHANGED <<alert_history, accepts>>)
    /\ ("win_accepted" \in touched \/ UNCHANGED win_accepted)
    /\ ("delivery" \in touched \/ UNCHANGED <<delivery_attempts, delivered>>)
    /\ UNCHANGED <<now, channels, retry_wake, failed_alerts, retry_thread, ev,
                   eligible_sends>>
    /\ UNCHANGED <<remVars, intVars>>

goto(th, label) == pc' = [pc EXCEPT ![th] = label]

(* line 524: the call starts, current_time = time.time() *)
Call(th, a) ==
    /\ pc[th] = "idle"
    /\ a \in ThreadAlerts(th)
    /\ Len(alert_history) < MaxHistory
    /\ ~in_history(a)
    /\ loc' = [loc EXCEPT ![th] = [NoLocals EXCEPT !.alert = a, !.current_time = now]]
    /\ goto(th, "L525")
    /\ sharedUnchanged({})

(* line 525: if current_time - self.last_reset > self.rate_limit_window *)
L525(th) ==
    /\ pc[th] = "L525"
    /\ goto(th, IF window_elapsed(loc[th].current_time, last_reset) THEN "L526" ELSE "L529")
    /\ UNCHANGED loc
    /\ sharedUnchanged({})

(* line 526: self.alert_count = 0 *)
L526(th) ==
    /\ pc[th] = "L526"
    /\ alert_count' = 0
    /\ win_accepted' = 0
    /\ goto(th, "L527")
    /\ UNCHANGED loc
    /\ sharedUnchanged({"alert_count", "win_accepted"})

(* line 527: self.last_reset = current_time *)
L527(th) ==
    /\ pc[th] = "L527"
    /\ last_reset' = loc[th].current_time
    /\ goto(th, "L529")
    /\ UNCHANGED loc
    /\ sharedUnchanged({"last_reset"})

(* lines 529-531: if self.alert_count >= self.rate_limit: return False *)
L529(th) ==
    /\ pc[th] = "L529"
    /\ goto(th, IF limit_reached(alert_count) THEN "idle" ELSE "L534")
    /\ UNCHANGED loc
    /\ sharedUnchanged({})

(* lines 534-536: if self._is_duplicate(alert): return False *)
L534(th) ==
    /\ pc[th] = "L534"
    /\ goto(th, IF is_duplicate(loc[th].alert, dedupe_cache, now) THEN "idle" ELSE "L539")
    /\ UNCHANGED loc
    /\ sharedUnchanged({})

(* line 539: self.dedupe_cache[alert.dedupe_key] = current_time *)
L539(th) ==
    /\ pc[th] = "L539"
    /\ dedupe_cache' = put(dedupe_cache, AlertAttr(loc[th].alert).dedupe_key,
                            loc[th].current_time)
    /\ goto(th, "L542")
    /\ UNCHANGED loc
    /\ sharedUnchanged({"dedupe_cache"})

(* line 542: self.alert_history.append(alert) *)
L542(th) ==
    /\ pc[th] = "L542"
    /\ alert_history' = history_append(alert_history, loc[th].alert)
    /\ accepts' = Append(accepts, [key |-> AlertAttr(loc[th].alert).dedupe_key,
                                    t |-> loc[th].current_time])
    /\ win_accepted' = win_accepted + 1
    /\ goto(th, "L545")
    /\ UNCHANGED loc
    /\ sharedUnchanged({"alert_history", "win_accepted"})

(* line 545: self.alert_count += 1, the load *)
L545(th) ==
    /\ pc[th] = "L545"
    /\ loc' = [loc EXCEPT ![th].count = alert_count]
    /\ goto(th, "L545s")
    /\ sharedUnchanged({})

(* line 545: self.alert_count += 1, the store *)
L545s(th) ==
    /\ pc[th] = "L545s"
    /\ alert_count' = loc[th].count + 1
    /\ goto(th, "L548")
    /\ UNCHANGED loc
    /\ sharedUnchanged({"alert_count"})

(* lines 548-560: the loop over the channels, and the return *)
L548(th) ==
    /\ pc[th] = "L548"
    /\ \E o \in Outcomes :
          LET a == loc[th].alert
              st == send_to_channels(1, a, o,
                        [sent |-> FALSE, delivered |-> delivered[a],
                         delivery_attempts |-> delivery_attempts[a], raised |-> FALSE,
                         invoked |-> {}, succeeded |-> {}])
          IN  /\ delivered' = [delivered EXCEPT ![a] = st.delivered]
              /\ delivery_attempts' = [delivery_attempts EXCEPT ![a] = st.delivery_attempts]
    /\ goto(th, "idle")
    /\ loc' = [loc EXCEPT ![th] = NoLocals]
    /\ sharedUnchanged({"delivery"})

(* One API handler beside the retry thread.  send_alert appends the alert to
   the history (line 542) before it loops over the channels (548-558), and
   the retry thread reads the history with no lock: the handler's call is
   taken in two steps, up to line 545 and from line 548, and the retry
   thread's steps fall before, between and after them. *)
Handler == "h1"

(* lines 524-545 of a handler's call: the checks, the cache, the history and
   the counter *)
HandlerAccept(a) ==
    /\ pc[Handler] = "idle"
    /\ a \in ThreadAlerts(Handler)
    /\ ~in_history(a)
    /\ Len(alert_history) < MaxHistory
    /\ LET elapsed == window_elapsed(now, last_reset)
           count == IF elapsed THEN 0 ELSE alert_count
           outcome == gate(count, a, dedupe_cache, now)
       IN  /\ alert_count' = count_after(count, outcome)
           /\ last_reset' = IF elapsed THEN now ELSE last_reset
           /\ win_accepted' = (IF elapsed THEN 0 ELSE win_accepted)
                              + (IF outcome = "accepted" THEN 1 ELSE 0)
           /\ IF outcome # "accepted"
              THEN /\ ev' = [Entry(a, "api") EXCEPT !.outcome = outcome, !.result = FALSE]
                   /\ UNCHANGED <<dedupe_cache, alert_history, pc, loc>>
              ELSE /\ dedupe_cache' = put(dedupe_cache, AlertAttr(a).dedupe_key, now)
                   /\ alert_history' = history_append(alert_history, a)
                   /\ goto(Handler, "L548")
                   /\ loc' = [loc EXCEPT ![Handler] =
                                 [NoLocals EXCEPT !.alert = a, !.current_time = now]]
                   /\ UNCHANGED ev
    /\ UNCHANGED <<now, channels, delivery_attempts, delivered, retry_wake,
                   failed_alerts, retry_thread, accepts, eligible_sends>>

(* lines 548-560 of the handler's call: the loop over the channels, and the
   return *)
HandlerLoop ==
    /\ pc[Handler] = "L548"
    /\ \E o \in Outcomes :
          LET a == loc[Handler].alert
              st == send_to_channels(1, a, o,
                        [sent |-> FALSE, delivered |-> delivered[a],
                         delivery_attempts |-> delivery_attempts[a], raised |-> FALSE,
                         invoked |-> {}, succeeded |-> {}])
          IN  /\ delivered' = [delivered EXCEPT ![a] = st.delivered]
              /\ delivery_attempts' = [delivery_attempts EXCEPT ![a] = st.delivery_attempts]
              /\ ev' = [NoEvent EXCEPT
                           !.op = "send", !.by = "api", !.alert = a,
                           !.t = loc[Handler].current_time,
                           !.pre_attempts = delivery_attempts[a],
                           !.pre_delivered = delivered[a],
                           !.outcome = "accepted",
                           !.result = (st.sent /\ ~st.raised),
                           !.raised = st.raised,
                           !.invoked = st.invoked,
                           !.succeeded = st.succeeded]
    /\ goto(Handler, "idle")
    /\ loc' = [loc EXCEPT ![Handler] = NoLocals]
    /\ UNCHANGED <<now, channels, alert_history, dedupe_cache, alert_count, last_reset,
                   retry_wake, failed_alerts, retry_thread, win_accepted, accepts,
                   eligible_sends>>

RaceInit ==
    /\ pc = [th \in {Handler} |-> "idle"]
    /\ loc = [th \in {Handler} |-> NoLocals]

(* The clock as the threads see it: the start, and an instant after the first
   rate-limit window has ended. *)
ConcTimes == {0, 61}

ConcTick == Tick /\ now' \in ConcTimes /\ UNCHANGED <<concVars, remVars, intVars>>

AlertInit == channels \in ChannelConfigs /\ AlertFields

AlertIdle == channels = <<>> /\ AlertFields

ConcIdle ==
    /\ pc = <<>>
    /\ loc = <<>>

ConcInit ==
    /\ pc = [th \in Threads |-> "idle"]
    /\ loc = [th \in Threads |-> NoLocals]

-----------------------------------------------------------------------------
(* AutoRemediation *)

MaxReplicas == 5         \* the deployment starts with at most this many replicas
MaxExecutions == 2      \* remediate is modelled while the execution history is shorter

(* RemediationAction.__init__: requires_approval is derived from the severity *)
Action(name, severity) ==
    [name |-> name, severity |-> severity,
     requires_approval |-> severity \in {"high", "critical"}]

ScaleUpDeploymentAction == Action("scale_up_deployment", "medium")
RestartPodAction == Action("restart_pod", "medium")
CircuitBreakerAction == Action("circuit_breaker", "high")

(* Actions of further RemediationAction subclasses, with the severity given
   to the base constructor; "urgent" is a severity severity_order does not
   list. *)
Extra(severity) == Action(severity, severity)

(* AutoRemediation._initialize_actions, config with and without
   'circuit_breaker', followed by what is appended to self.actions. *)
Catalogs ==
    { <<ScaleUpDeploymentAction, RestartPodAction>>,
      <<ScaleUpDeploymentAction, RestartPodAction, CircuitBreakerAction>>,
      <<ScaleUpDeploymentAction, RestartPodAction, CircuitBreakerAction,
        Extra("critical"), Extra("low")>>,
      <<ScaleUpDeploymentAction, RestartPodAction, CircuitBreakerAction,
        Extra("urgent"), Extra("critical")>> }

(* Issues: the keys the actions read.  "none" is a key that is not set;
   handled is the key the further actions look at. *)
Issue(metric, pod, dependency, handled) ==
    [metric_name |-> metric, pod_name |-> pod, dependency |-> dependency,
     handled |-> handled]

Issues ==
    { Issue("cpu_usage", "none", "none", FALSE),
      Issue("memory_usage", "pod", "none", TRUE),
      Issue("dependency_error_rate", "none", "dep", FALSE),
      Issue("dependency_error_rate", "none", "dep", TRUE),
      Issue("latency", "none", "none", TRUE),
      Issue("latency", "none", "none", FALSE) }

Callbacks == {"c1", "c2"}

(* every issue taken as remediable *)
can_remediate_always(action, issue) == TRUE

(* can_remediate of each action class *)
can_remediate(action, issue) ==
    CASE action.name = "scale_up_deployment" ->
            issue.metric_name \in {"cpu_usage", "memory_usage"} /\ deployment.exists
      [] action.name = "restart_pod" ->
            issue.pod_name # "none" /\ pod_exists
      [] action.name = "circuit_breaker" ->
            issue.metric_name = "dependency_error_rate" /\ issue.dependency # "none"
      [] OTHER -> issue.handled

(* the order inverted: the most severe action first *)
severity_order_inverted(severity) ==
    CASE severity = "low" -> 3
      [] severity = "medium" -> 2
      [] severity = "high" -> 1
      [] severity = "critical" -> 0
      [] OTHER -> 4

(* remediate, lines 571-577: severity_order.get(a.severity, 4) *)
severity_order(severity) ==
    CASE severity = "low" -> 0
      [] severity = "medium" -> 1
      [] severity = "high" -> 2
      [] severity = "critical" -> 3
      [] OTHER -> 4

(* a sort that is not stable: each element goes in front of the elements
   with the same key *)
RECURSIVE insert_sorted_before_equal(_, _)
insert_sorted_before_equal(sorted, action) ==
    IF sorted = <<>> THEN <<action>>
    ELSE IF severity_order(sorted[Len(sorted)].severity) < severity_order(action.severity)
         THEN Append(sorted, action)
         ELSE Append(insert_sorted_before_equal(SubSeq(sorted, 1, Len(sorted) - 1), action),
                     sorted[Len(sorted)])

(* list.sort(key=...), a stable sort: insertion of each element behind the
   elements whose key is not larger *)
RECURSIVE insert_sorted(_, _)
insert_sorted(sorted, action) ==
    IF sorted = <<>> THEN <<action>>
    ELSE IF severity_order(sorted[Len(sorted)].severity) <= severity_order(action.severity)
         THEN Append(sorted, action)
         ELSE Append(insert_sorted(SubSeq(sorted, 1, Len(sorted) - 1), action),
                     sorted[Len(sorted)])

RECURSIVE sort_by_severity(_)
sort_by_severity(list) ==
    IF list = <<>> THEN <<>>
    ELSE insert_sorted(sort_by_severity(SubSeq(list, 1, Len(list) - 1)), list[Len(list)])

applicable_actions(issue) ==
    SelectSeq(actions, LAMBDA action : can_remediate(action, issue))

(* the first candidate that needs no approval where there is one *)
select_action_needing_no_approval(candidates) ==
    IF \E i \in 1..Len(candidates) : ~candidates[i].requires_approval
    THEN candidates[CHOOSE i \in 1..Len(candidates) :
                        /\ ~candidates[i].requires_approval
                        /\ \A j \in 1..(i - 1) : candidates[j].requires_approval]
    ELSE candidates[1]

(* remediate, line 580: selected_action = applicable_actions[0], of the
   sorted list *)
select_action(candidates) == candidates[1]

(* approval skipped when no callback is registered *)
approval_needed_if_registered(action, dry_run) ==
    action.requires_approval /\ ~dry_run /\ action.severity \in DOMAIN approval_callbacks

(* approval asked for in a dry run too *)
approval_needed_in_dry_run(action, dry_run) == action.requires_approval

(* remediate, line 583: if selected_action.requires_approval and not dry_run *)
approval_needed(action, dry_run) == action.requires_approval /\ ~dry_run

(* half as many again, without the minimum of one more *)
new_replicas_half_more(current_replicas) == (current_replicas * 3) \div 2

(* ScaleUpDeploymentAction.execute, line 156 *)
new_replicas(current_replicas) ==
    IF current_replicas + 1 >= (current_replicas * 3) \div 2
    THEN current_replicas + 1 ELSE (current_replicas * 3) \div 2

(* The result dictionary of an action's execute: the keys that rollback and
   the claims read *)
NoExecution ==
    [action |-> "none", dry_run |-> FALSE, success |-> FALSE,
     previous_replicas |-> 0, new_replicas |-> 0]

(* The result dictionary of remediate: has_success is whether the key
   'success' is there *)
NoResult ==
    [has_success |-> FALSE, success |-> FALSE, action |-> "none",
     execution_result |-> NoExecution]

NoRemediation ==
    [op |-> "none", issue |-> Issue("none", "none", "none", FALSE), dry_run |-> FALSE,
     applicable |-> <<>>, selected |-> "none", selected_severity |-> "none",
     requires_approval |-> FALSE, registered |-> "none",
     callback |-> "none", approved |-> FALSE, executed |-> "none",
     success |-> FALSE, message |-> "none", raised |-> FALSE, pre_len |-> 0,
     pre_deployment |-> [exists |-> FALSE, replicas |-> 0], pre_pod_exists |-> FALSE,
     pre_breaker_enabled |-> FALSE, mutating_call |-> FALSE,
     execution_result |-> NoExecution, arg |-> NoResult,
     reg_severity |-> "none", reg_callback |-> "none", reg_replaced |-> "none"]

(* The cluster and the breaker as a call finds them *)
Found(obs) ==
    [obs EXCEPT !.pre_len = Len(execution_history),
                !.pre_deployment = deployment, !.pre_pod_exists = pod_exists,
                !.pre_breaker_enabled = breaker_enabled]

(* What a call of remediate finds on entry and selects *)
Selected(issue, dry_run) ==
    LET candidates == sort_by_severity(applicable_actions(issue))
        selected_action == select_action(candidates)
    IN  [Found(NoRemediation) EXCEPT
            !.op = "remediate", !.issue = issue, !.dry_run = dry_run,
            !.applicable = applicable_actions(issue),
            !.selected = selected_action.name,
            !.selected_severity = selected_action.severity,
            !.requires_approval = selected_action.requires_approval,
            !.registered = IF selected_action.severity \in DOMAIN approval_callbacks
                           THEN approval_callbacks[selected_action.severity] ELSE "none"]

(* selected_action.execute(issue, dry_run) and the rest of remediate, lines
   609-639.  works is whether the mutating call to the cluster or to the
   breaker API succeeds; gone is whether the deployment has been deleted since
   can_remediate read it, which makes ScaleUpDeploymentAction.execute raise
   at its unguarded read. *)
execute(selected_action, obs, dry_run, works, gone) ==
    IF selected_action.name = "scale_up_deployment" /\ gone
    THEN /\ deployment' = [deployment EXCEPT !.exists = FALSE]
         /\ rem' = [obs EXCEPT !.executed = selected_action.name, !.raised = TRUE,
                               !.message = "exception"]
         /\ UNCHANGED <<execution_history, pod_exists, breaker_enabled>>
    ELSE LET execution_result ==
                 [action |-> selected_action.name, dry_run |-> dry_run,
                  success |-> (dry_run \/ works),
                  previous_replicas |->
                      IF selected_action.name = "scale_up_deployment"
                      THEN deployment.replicas ELSE 0,
                  new_replicas |->
                      IF selected_action.name = "scale_up_deployment"
                      THEN new_replicas(deployment.replicas) ELSE 0]
         IN
         /\ deployment' =
              IF selected_action.name = "scale_up_deployment" /\ ~dry_run /\ works
              THEN [deployment EXCEPT !.replicas = new_replicas(deployment.replicas)]
              ELSE deployment
         /\ pod_exists' =
              IF selected_action.name = "restart_pod" /\ ~dry_run /\ works
              THEN FALSE ELSE pod_exists
         /\ breaker_enabled' =
              IF selected_action.name = "circuit_breaker" /\ ~dry_run /\ works
              THEN TRUE ELSE breaker_enabled
         /\ execution_history' =
              Append(execution_history,
                     [action |-> selected_action.name, rollback |-> FALSE,
                      result |-> execution_result])
         /\ rem' = [obs EXCEPT !.executed = selected_action.name,
                               !.success = (dry_run \/ works),
                               !.mutating_call = ~dry_run,
                               !.execution_result = execution_result,
                               !.message = IF dry_run \/ works THEN "none"
                                           ELSE "Remediation action failed"]

(* AutoRemediation.remediate(issue, dry_run).  says is what the approval
   callback answers if it is called. *)
remediate(issue, dry_run, says, works, gone) ==
    IF applicable_actions(issue) = <<>>
    THEN /\ rem' = [Found(NoRemediation) EXCEPT
                        !.op = "remediate", !.issue = issue, !.dry_run = dry_run,
                        !.message = "No applicable remediation actions found"]
         /\ UNCHANGED <<execution_history, deployment, pod_exists, breaker_enabled>>
    ELSE LET selected_action == select_action(sort_by_severity(applicable_actions(issue)))
             obs == Selected(issue, dry_run)
         IN  IF approval_needed(selected_action, dry_run)
             THEN IF selected_action.severity \in DOMAIN approval_callbacks
                  THEN IF says
                       THEN execute(selected_action,
                                    [obs EXCEPT !.callback =
                                        approval_callbacks[selected_action.severity],
                                                !.approved = TRUE],
                                    dry_run, works, gone)
                       ELSE /\ rem' = [obs EXCEPT
                                          !.callback = approval_callbacks[selected_action.severity],
                                          !.message = "Remediation action not approved"]
                            /\ UNCHANGED <<execution_history, deployment, pod_exists,
                                           breaker_enabled>>
                  ELSE /\ rem' = [obs EXCEPT !.message =
                          "Remediation action requires approval, but no approval callback registered"]
                       /\ UNCHANGED <<execution_history, deployment, pod_exists,
                                      breaker_enabled>>
             ELSE execute(selected_action, obs, dry_run, works, gone)

(* The answers of the callback, of the cluster and of the breaker API that a
   call of remediate can get: an answer is drawn only where the call asks
   for it. *)
callback_asked(issue, dry_run) ==
    /\ applicable_actions(issue) # <<>>
    /\ LET selected_action == select_action(sort_by_severity(applicable_actions(issue)))
       IN  /\ approval_needed(selected_action, dry_run)
           /\ selected_action.severity \in DOMAIN approval_callbacks

execute_reached(issue, dry_run, says) ==
    /\ applicable_actions(issue) # <<>>
    /\ LET selected_action == select_action(sort_by_severity(applicable_actions(issue)))
       IN  \/ ~approval_needed(selected_action, dry_run)
           \/ selected_action.severity \in DOMAIN approval_callbacks /\ says

Remediate ==
    /\ Len(execution_history) < MaxExecutions
    /\ \E issue \in Issues, dry_run \in BOOLEAN :
          \E says \in (IF callback_asked(issue, dry_run) THEN BOOLEAN ELSE {TRUE}) :
             \E works \in (IF execute_reached(issue, dry_run, says) /\ ~dry_run
                            THEN BOOLEAN ELSE {TRUE}),
                gone \in (IF /\ execute_reached(issue, dry_run, says)
                             /\ issue.metric_name \in {"cpu_usage", "memory_usage"}
                          THEN BOOLEAN ELSE {FALSE}) :
                remediate(issue, dry_run, says, works, gone)
    /\ UNCHANGED <<actions, approval_callbacks>>

(* The dictionary remediate returned in the call that obs records *)
remediation_result(obs) ==
    [has_success |-> TRUE, success |-> obs.success,
     action |-> obs.selected,
     execution_result |-> IF obs.success THEN obs.execution_result ELSE NoExecution]

(* every result taken as successful *)
get_success_always(result) == TRUE

(* remediation_result.get('success', False) *)
get_success(result) == IF result.has_success THEN result.success ELSE FALSE

(* the action looked up among the executions recorded so far *)
find_action_in_history(action_name) ==
    \E i \in 1..Len(execution_history) :
        execution_history[i].action = action_name /\ ~execution_history[i].rollback

(* next((a for a in self.actions if a.name == action_name), None): whether
   there is such an action *)
find_action(action_name) == \E i \in 1..Len(actions) : actions[i].name = action_name

(* the count scaled back down by the factor of the scale-up *)
rollback_replicas_scaled_down(execution_result) ==
    (execution_result.new_replicas * 2) \div 3

(* the count taken down by as much as the scale-up took it up *)
rollback_replicas_by_difference(execution_result) ==
    deployment.replicas
        - (execution_result.new_replicas - execution_result.previous_replicas)

(* ScaleUpDeploymentAction.rollback: previous_replicas =
   execution_result.get('previous_replicas'), the count the patch sets *)
rollback_replicas(execution_result) == execution_result.previous_replicas

(* the dry_run key of the execution result not looked at *)
rollback_is_external_in_dry_run(action_name, execution_result) ==
    action_name \in {"scale_up_deployment", "circuit_breaker"}

(* Whether an action's rollback goes on to call the cluster or the breaker
   API: RestartPodAction.rollback never does (332-350); the other two return
   before it for a dry-run result (197-205, 450-458) *)
rollback_is_external(action_name, execution_result) ==
    /\ action_name \in {"scale_up_deployment", "circuit_breaker"}
    /\ ~execution_result.dry_run

(* action.rollback(execution_result) of each action class, and the rest of
   AutoRemediation.rollback, lines 671-682.  works is whether the call to the
   cluster or to the breaker API succeeds.  A further action's rollback is
   taken to be the documented no-op, as RestartPodAction's is. *)
action_rollback(action_name, execution_result, obs, works) ==
    LET external == rollback_is_external(action_name, execution_result)
        success == IF ~external THEN TRUE
                   ELSE IF action_name = "scale_up_deployment"
                        THEN deployment.exists /\ works
                        ELSE works
        rollback_result ==
            [action |-> action_name, dry_run |-> FALSE, success |-> success,
             previous_replicas |-> execution_result.new_replicas,
             new_replicas |-> rollback_replicas(execution_result)]
    IN  /\ deployment' =
             IF action_name = "scale_up_deployment" /\ external /\ success
             THEN [deployment EXCEPT !.replicas = rollback_replicas(execution_result)]
             ELSE deployment
        /\ breaker_enabled' =
             IF action_name = "circuit_breaker" /\ external /\ success
             THEN FALSE ELSE breaker_enabled
        /\ UNCHANGED pod_exists
        /\ execution_history' =
             Append(execution_history,
                    [action |-> action_name, rollback |-> TRUE, result |-> rollback_result])
        /\ rem' = [obs EXCEPT !.executed = action_name, !.success = success,
                              !.mutating_call = external,
                              !.execution_result = rollback_result,
                              !.message =
                                  IF ~external /\ action_name = "restart_pod"
                                  THEN "No rollback possible for pod restart"
                                  ELSE IF ~external THEN "No rollback needed for dry run"
                                  ELSE "none"]

(* AutoRemediation.rollback(remediation_result) *)
rollback(result, works) ==
    LET obs == [Found(NoRemediation) EXCEPT !.op = "rollback", !.arg = result]
    IN  IF ~get_success(result)
        THEN /\ rem' = [obs EXCEPT !.message = "Cannot rollback unsuccessful remediation"]
             /\ UNCHANGED <<execution_history, deployment, pod_exists, breaker_enabled>>
        ELSE IF ~find_action(result.action)
        THEN /\ rem' = [obs EXCEPT !.message = "Action not found"]
             /\ UNCHANGED <<execution_history, deployment, pod_exists, breaker_enabled>>
        ELSE action_rollback(result.action, result.execution_result, obs, works)

(* A result the caller kept from an earlier run of the process: a successful
   circuit_breaker remediation that this instance's history does not hold. *)
StoredResult ==
    [has_success |-> TRUE, success |-> TRUE, action |-> "circuit_breaker",
     execution_result |-> [NoExecution EXCEPT !.action = "circuit_breaker",
                                              !.success = TRUE]]

(* The results a caller of rollback holds: what the last remediate returned,
   the result it has rolled back before, a result of an earlier run, and a
   dictionary with no 'success' key. *)
CallerResults ==
    (IF rem.op = "remediate" /\ ~rem.raised THEN {remediation_result(rem)} ELSE {})
        \cup (IF rem.op = "rollback" THEN {rem.arg} ELSE {})
        \cup {StoredResult, NoResult}

Rollback ==
    /\ \E result \in CallerResults :
          \E works \in (IF get_success(result) /\ ~result.execution_result.dry_run
                         THEN BOOLEAN ELSE {TRUE}) :
             rollback(result, works)
    /\ Len(execution_history') <= MaxExecutions
    /\ UNCHANGED <<actions, approval_callbacks>>

(* The caller rolls back once more the result it has just rolled back *)
MaxRollbacks == 2        \* rollbacks of one result that follow one another

RollbackAgain ==
    /\ rem.op = "rollback"
    /\ \E works \in (IF get_success(rem.arg) /\ ~rem.arg.execution_result.dry_run
                      THEN BOOLEAN ELSE {TRUE}) :
          rollback(rem.arg, works)
    /\ Len(execution_history') <= MaxExecutions + MaxRollbacks - 1
    /\ UNCHANGED <<actions, approval_callbacks>>

(* AutoRemediation.__init__ with 'circuit_breaker' configured, and two
   further actions appended to self.actions: candidates of equal severity,
   and a candidate that needs no approval behind one that needs it *)
SelectInit ==
    /\ actions = <<ScaleUpDeploymentAction, RestartPodAction, CircuitBreakerAction,
                   Extra("urgent"), Extra("critical")>>
    /\ approval_callbacks = << >>
    /\ execution_history = <<>>
    /\ deployment = [exists |-> TRUE, replicas |-> 4]
    /\ pod_exists = TRUE
    /\ breaker_enabled = FALSE
    /\ rem = NoRemediation

(* AutoRemediation.__init__ with 'circuit_breaker' configured *)
TwiceInit ==
    /\ actions = <<ScaleUpDeploymentAction, RestartPodAction, CircuitBreakerAction>>
    /\ approval_callbacks = << >>
    /\ execution_history = <<>>
    /\ deployment \in [exists : {TRUE}, replicas : {1, 4}]
    /\ pod_exists = TRUE
    /\ breaker_enabled = FALSE
    /\ rem = NoRemediation

(* AutoRemediation.register_approval_callback(severity, callback) *)
register_keeps_first(callbacks, severity, callback) ==
    IF severity \in DOMAIN callbacks THEN callbacks
    ELSE [s \in DOMAIN callbacks \cup {severity} |->
             IF s = severity THEN callback ELSE callbacks[s]]

(* self.approval_callbacks[severity] = callback *)
register_approval_callback(callbacks, severity, callback) ==
    [s \in DOMAIN callbacks \cup {severity} |->
        IF s = severity THEN callback ELSE callbacks[s]]

RegisterApprovalCallback ==
    /\ \E severity \in {"high", "critical"}, callback \in Callbacks :
          /\ approval_callbacks' =
                 register_approval_callback(approval_callbacks, severity, callback)
          /\ rem' = [NoRemediation EXCEPT
                        !.op = "register_approval_callback",
                        !.reg_severity = severity,
                        !.reg_callback = callback,
                        !.reg_replaced = IF severity \in DOMAIN approval_callbacks
                                         THEN approval_callbacks[severity] ELSE "none"]
    /\ UNCHANGED <<actions, execution_history, deployment, pod_exists, breaker_enabled>>

(* AutoRemediation.__init__, and the cluster it finds *)
RemInit ==
    /\ actions \in Catalogs
    /\ approval_callbacks = << >>
    /\ execution_history = <<>>
    /\ deployment = [exists |-> TRUE, replicas |-> 4]
    /\ pod_exists = TRUE
    /\ breaker_enabled = FALSE
    /\ rem = NoRemediation

(* AutoRemediation.__init__ with the default catalog, and a deployment of any
   size up to MaxReplicas *)
ScaleInit ==
    /\ actions = <<ScaleUpDeploymentAction, RestartPodAction>>
    /\ approval_callbacks = << >>
    /\ execution_history = <<>>
    /\ deployment \in [exists : {TRUE}, replicas : 0..MaxReplicas]
    /\ pod_exists = TRUE
    /\ breaker_enabled = FALSE
    /\ rem = NoRemediation

RemIdle ==
    /\ actions = <<>>
    /\ approval_callbacks = << >>
    /\ execution_history = <<>>
    /\ deployment = [exists |-> FALSE, replicas |-> 0]
    /\ pod_exists = FALSE
    /\ breaker_enabled = FALSE
    /\ rem = NoRemediation

vars == <<alertVars, concVars, remVars, intVars>>

Init == (AlertInit /\ ConcIdle /\ RemIdle /\ IntIdle)

Next ==
    \/ \E a \in Alerts : Send(a) /\ UNCHANGED <<concVars, remVars, intVars>>
    \/ RetryScan /\ UNCHANGED <<concVars, remVars, intVars>>
    \/ RetrySend /\ UNCHANGED <<concVars, remVars, intVars>>
    \/ Tick /\ UNCHANGED <<concVars, remVars, intVars>>

Spec == Init /\ [][Next]_vars

(* The request layer alone: alerts are sent and the history is read *)
NextHist ==
    \/ \E a \in Alerts : Send(a) /\ UNCHANGED <<concVars, remVars, intVars>>
    \/ Tick /\ UNCHANGED <<concVars, remVars, intVars>>
    \/ GetAlertHistory /\ UNCHANGED <<concVars, remVars, intVars>>

SpecHist == Init /\ [][NextHist]_vars

(* The integration layer: alerts are built from templates and sent *)
NextInt ==
    \/ IntegrationSend /\ UNCHANGED <<concVars, remVars>>
    \/ IntTick /\ UNCHANGED <<concVars, remVars, intVars>>

InitInt == (AlertInit /\ ConcIdle /\ RemIdle /\ IntInit)

SpecInt == InitInt /\ [][NextInt]_vars

NextConc ==
    \/ \E th \in Threads, a \in Alerts : Call(th, a)
    \/ \E th \in Threads : L525(th)
    \/ \E th \in Threads : L526(th)
    \/ \E th \in Threads : L527(th)
    \/ \E th \in Threads : L529(th)
    \/ \E th \in Threads : L534(th)
    \/ \E th \in Threads : L539(th)
    \/ \E th \in Threads : L542(th)
    \/ \E th \in Threads : L545(th)
    \/ \E th \in Threads : L545s(th)
    \/ \E th \in Threads : L548(th)
    \/ ConcTick

(* An API handler and the retry thread side by side *)
NextRace ==
    \/ \E a \in Alerts : HandlerAccept(a) /\ UNCHANGED <<remVars, intVars>>
    \/ HandlerLoop /\ UNCHANGED <<remVars, intVars>>
    \/ RetryScan /\ UNCHANGED <<concVars, remVars, intVars>>
    \/ RetrySend /\ UNCHANGED <<concVars, remVars, intVars>>
    \/ Tick /\ UNCHANGED <<concVars, remVars, intVars>>

InitRace == (AlertInit /\ RaceInit /\ RemIdle /\ IntIdle)

SpecRace == InitRace /\ [][NextRace]_vars

InitConc == (AlertInit /\ ConcInit /\ RemIdle /\ IntIdle)

SpecConc == InitConc /\ [][NextConc]_vars

NextRem ==
    \/ Remediate /\ UNCHANGED <<alertVars, concVars, intVars>>
    \/ Rollback /\ UNCHANGED <<alertVars, concVars, intVars>>
    \/ RegisterApprovalCallback /\ UNCHANGED <<alertVars, concVars, intVars>>

InitRem == (AlertIdle /\ ConcIdle /\ RemInit /\ IntIdle)

SpecRem == InitRem /\ [][NextRem]_vars

(* Scaling: remediation and rollback on deployments of every size *)
NextScale ==
    \/ Remediate /\ UNCHANGED <<alertVars, concVars, intVars>>
    \/ Rollback /\ UNCHANGED <<alertVars, concVars, intVars>>

InitScale == (AlertIdle /\ ConcIdle /\ ScaleInit /\ IntIdle)

SpecScale == InitScale /\ [][NextScale]_vars

(* Selection: remediation on a catalog with several candidates per issue *)
InitSelect == (AlertIdle /\ ConcIdle /\ SelectInit /\ IntIdle)

SpecSelect == InitSelect /\ [][NextRem]_vars

(* Repeated rollback: a result is rolled back again after it has been *)
NextTwice ==
    \/ Remediate /\ UNCHANGED <<alertVars, concVars, intVars>>
    \/ Rollback /\ UNCHANGED <<alertVars, concVars, intVars>>
    \/ RollbackAgain /\ UNCHANGED <<alertVars, concVars, intVars>>
    \/ RegisterApprovalCallback /\ UNCHANGED <<alertVars, concVars, intVars>>

InitTwice == (AlertIdle /\ ConcIdle /\ TwiceInit /\ IntIdle)

SpecTwice == InitTwice /\ [][NextTwice]_vars

-----------------------------------------------------------------------------
(* Properties of AlertManager *)

(* The channel router as the design states it: enabled, and every filter that
   is present passes. *)
Matches(channel, a) ==
    /\ channel.enabled
    /\ (channel.severity_filter = {} \/ AlertAttr(a).severity \in channel.severity_filter)
    /\ (channel.source_filter = {} \/ AlertAttr(a).source \in channel.source_filter)
    /\ (channel.tag_filter = {} \/ AlertAttr(a).tags \cap channel.tag_filter # {})

MatchedNames(a) == {channels[i].name : i \in {j \in 1..Len(channels) : Matches(channels[j], a)}}

(* C1: a send whose dedupe key was accepted less than dedupe_window seconds
   before returns False, calls no sender and appends nothing to the history. *)
C1_DuplicateDropped ==
    (ev.op = "send" /\ ev.pre_seen /\ ev.t - ev.pre_seen_at < dedupe_window)
        => (~ev.result /\ ev.invoked = {} /\ Len(alert_history) = ev.pre_len)

(* an API handler's alert with the key of an alert accepted within the window
   has been dropped as a duplicate *)
C1_Witness ==
    /\ ev.op = "send" /\ ev.by = "api"
    /\ ev.pre_seen /\ ev.t - ev.pre_seen_at < dedupe_window
    /\ ev.outcome = "duplicate"
    /\ \E i \in 1..Len(alert_history) :
          /\ alert_history[i] # ev.alert
          /\ AlertAttr(alert_history[i]).dedupe_key = AlertAttr(ev.alert).dedupe_key

(* C2: a send that is no duplicate is accepted exactly when fewer than
   rate_limit alerts were accepted in the running window, so of
   rate_limit + 1 such sends in one window the first rate_limit are accepted
   and the last is rejected; the first send after the window has elapsed
   starts the count again from 0. *)
NotDuplicate(e) == ~e.pre_seen \/ e.t - e.pre_seen_at >= dedupe_window

C2_RateLimit ==
    /\ alert_count <= rate_limit
    /\ (ev.op = "send" /\ NotDuplicate(ev)) =>
          /\ ev.outcome \in {"accepted", "rate_limited"}
          /\ ev.outcome = "accepted" <=>
                (IF ev.window_reset THEN 0 ELSE ev.pre_win) < rate_limit
          /\ ev.outcome = "rate_limited" => (~ev.result /\ Len(alert_history) = ev.pre_len)
          /\ ev.window_reset => alert_count = (IF ev.outcome = "accepted" THEN 1 ELSE 0)

(* the (rate_limit+1)th alert of the first window, all with different keys,
   has been rejected *)
C2_Witness ==
    /\ ev.op = "send" /\ ev.outcome = "rate_limited"
    /\ ~ev.window_reset /\ ~ev.pre_seen
    /\ ev.pre_win = rate_limit
    /\ Len(alert_history) = rate_limit
    /\ \A i, j \in 1..Len(alert_history) :
          i # j => AlertAttr(alert_history[i]).dedupe_key # AlertAttr(alert_history[j]).dedupe_key

(* C3: with concurrent callers of send_alert, the number of alerts accepted
   between two resets of the counter never exceeds rate_limit. *)
C3_WindowNeverOverLimit == win_accepted <= rate_limit

(* C4: with concurrent callers of send_alert, two sends with the same dedupe
   key less than dedupe_window seconds apart are never both accepted. *)
C4_NoTwoAcceptsWithinWindow ==
    \A i, j \in 1..Len(accepts) :
        (i < j /\ accepts[i].key = accepts[j].key) =>
            \/ accepts[j].t - accepts[i].t >= dedupe_window
            \/ accepts[i].t - accepts[j].t >= dedupe_window

(* C5: a send_alert call that returns, returns True exactly when the alert
   passed the gate and the sender of at least one channel that matches the
   alert returned True. *)
C5_ReturnValue ==
    (ev.op = "send" /\ ~ev.raised) =>
        (ev.result <=> (/\ ev.outcome = "accepted"
                        /\ \E i \in 1..Len(channels) :
                              /\ Matches(channels[i], ev.alert)
                              /\ channels[i].name \in ev.succeeded))

(* an accepted alert, every matched sender failed, False returned *)
C5_Witness ==
    /\ ev.op = "send" /\ ev.outcome = "accepted" /\ ~ev.raised
    /\ ev.invoked # {} /\ ev.succeeded = {}
    /\ ~ev.result

(* C6: for an accepted alert, in a call that returns, the senders called are
   those of the channels that are enabled and whose present filters all
   pass. *)
C6_Routing ==
    (ev.op = "send" /\ ev.outcome = "accepted" /\ ~ev.raised) =>
        ev.invoked = MatchedNames(ev.alert)

(* a warning alert has gone to the unfiltered webhook and not to the chat
   channel filtered to critical *)
C6_Witness ==
    /\ ev.op = "send" /\ ev.outcome = "accepted" /\ ~ev.raised
    /\ AlertAttr(ev.alert).severity = "warning"
    /\ \E i \in 1..Len(channels) :
          channels[i].name = "chat" /\ channels[i].enabled
          /\ channels[i].severity_filter = {"critical"}
    /\ ev.invoked = {"hook"}

(* C7: an alert in the history with delivered = False and
   delivery_attempts = max_retries - 1 is sent by the retry thread once more
   and never after that (a retry that the rate limiter drops is not counted
   as a send). *)
C7_RetriedOnceMore == \A a \in Alerts : eligible_sends[a] <= 1

(* C14: send_alert always returns a boolean and never ends in an exception,
   for every alert and every channel configuration that __init__ accepted. *)
C14_SendNeverRaises == ev.op = "send" => ~ev.raised

(* C15: a send whose dedupe key was last accepted dedupe_window seconds or
   more before is no duplicate: when the rate limit permits, it is accepted,
   appended to the history and sent to the matching channels. *)
C15_AcceptedAfterWindow ==
    (/\ ev.op = "send"
     /\ ev.pre_seen /\ ev.t - ev.pre_seen_at >= dedupe_window
     /\ (IF ev.window_reset THEN 0 ELSE ev.pre_count) < rate_limit) =>
        /\ ev.outcome = "accepted"
        /\ Len(alert_history) = ev.pre_len + 1
        /\ alert_history[Len(alert_history)] = ev.alert
        /\ ~ev.raised => ev.invoked = MatchedNames(ev.alert)

(* an API handler's alert, its key accepted exactly dedupe_window seconds
   before, has been accepted *)
C15_Witness ==
    /\ ev.op = "send" /\ ev.by = "api"
    /\ ev.pre_seen /\ ev.t - ev.pre_seen_at = dedupe_window
    /\ ev.outcome = "accepted" /\ ~ev.raised
    /\ Len(alert_history) = ev.pre_len + 1

(* C16: one send_alert call raises the alert's delivery_attempts by at most
   1, however many matched channels fail in the call. *)
C16_OneAttemptPerCall ==
    ev.op = "send" => delivery_attempts[ev.alert] - ev.pre_attempts <= 1

(* C17: over every step, delivered never goes from True back to False and
   delivery_attempts never decreases, for every alert instance. *)
C17_DeliveryMonotonic ==
    [][\A a \in Alerts : /\ delivered[a] => delivered'[a]
                         /\ delivery_attempts'[a] >= delivery_attempts[a]]_vars

(* an alert that had failed before has been delivered by a retry, and its
   attempts are still counted *)
C17_Witness ==
    /\ ev.op = "send" /\ ev.by = "retry" /\ ev.outcome = "accepted"
    /\ ~ev.pre_delivered /\ ev.pre_attempts >= 1
    /\ delivered[ev.alert]
    /\ delivery_attempts[ev.alert] >= ev.pre_attempts

(* C18: the retry thread never calls send_alert for an undelivered alert
   whose delivery_attempts has reached max_retries. *)
C18_NoRetryAtMaxRetries ==
    (ev.op = "send" /\ ev.by = "retry" /\ ~ev.pre_delivered) =>
        ev.pre_attempts < max_retries

(* C19: get_alert_history(limit), for every limit >= 0, returns the last
   min(limit, len(history)) entries of the history in order, and never more
   than limit entries. *)
C19_LastLimitEntries ==
    ev.op = "get_alert_history" =>
        LET n == IF ev.limit < Len(alert_history) THEN ev.limit ELSE Len(alert_history)
        IN  /\ Len(ev.returned) = n
            /\ Len(ev.returned) <= ev.limit
            /\ \A i \in 1..n :
                  ev.returned[i].id = alert_history[Len(alert_history) - n + i]

-----------------------------------------------------------------------------
(* Properties of AutoRemediation *)

(* the severity order as the design states it *)
Rank(severity) ==
    IF severity = "low" THEN 0
    ELSE IF severity = "medium" THEN 1
    ELSE IF severity = "high" THEN 2
    ELSE IF severity = "critical" THEN 3
    ELSE 4

NoCallbackMessage ==
    "Remediation action requires approval, but no approval callback registered"

(* C8: in a remediate call that is no dry run and selects an action that
   requires approval, the action is executed only if the callback registered
   for its severity was called and returned True; with no callback registered
   or with the callback returning False the call fails with the message that
   names the reason, executes nothing and records nothing. *)
C8_ApprovalGate ==
    (rem.op = "remediate" /\ ~rem.dry_run /\ rem.requires_approval) =>
        /\ rem.executed # "none" =>
              (rem.callback # "none" /\ rem.callback = rem.registered /\ rem.approved)
        /\ rem.registered = "none" =>
              /\ rem.callback = "none" /\ rem.executed = "none" /\ ~rem.success
              /\ rem.message = NoCallbackMessage
              /\ Len(execution_history) = rem.pre_len
        /\ (rem.callback # "none" /\ ~rem.approved) =>
              /\ rem.executed = "none" /\ ~rem.success
              /\ rem.message = "Remediation action not approved"
              /\ Len(execution_history) = rem.pre_len

(* an action that requires approval was selected with no callback registered *)
C8_Witness ==
    /\ rem.op = "remediate" /\ ~rem.dry_run /\ rem.requires_approval
    /\ rem.registered = "none"
    /\ rem.message = NoCallbackMessage
    /\ rem.executed = "none"

(* C9: the action remediate selects is an applicable action of minimum
   severity in the order low < medium < high < critical < any other
   severity, and no other action is executed. *)
C9_LeastSevereSelected ==
    (rem.op = "remediate" /\ rem.applicable # <<>>) =>
        /\ \E i \in 1..Len(rem.applicable) : rem.applicable[i].name = rem.selected
        /\ \A i \in 1..Len(rem.applicable) :
              Rank(rem.selected_severity) <= Rank(rem.applicable[i].severity)
        /\ rem.executed \in {"none", rem.selected}

(* a low and a high action both apply; the low one was selected and executed *)
C9_Witness ==
    /\ rem.op = "remediate"
    /\ \E i, j \in 1..Len(rem.applicable) :
          rem.applicable[i].severity = "low" /\ rem.applicable[j].severity = "high"
    /\ rem.selected_severity = "low"
    /\ rem.executed = rem.selected

(* C10 as stated: an approval callback is called exactly when the selected
   action requires approval and the call is no dry run. *)
C10_CallbackIffRequired ==
    rem.op = "remediate" =>
        (rem.callback # "none" <=> (rem.requires_approval /\ ~rem.dry_run))

(* C10, amended: an approval callback is called exactly when the selected
   action requires approval (severity high or critical), the call is no dry
   run and a callback is registered for the action's severity, and it is that
   callback; for a selected action of another severity and in a dry run no
   callback is called. *)
C10_CallbackIffRequiredAndRegistered ==
    rem.op = "remediate" =>
        /\ rem.callback # "none" <=>
              (/\ rem.selected_severity \in {"high", "critical"}
               /\ ~rem.dry_run
               /\ rem.registered # "none")
        /\ rem.callback # "none" => rem.callback = rem.registered
        /\ (rem.selected_severity \notin {"high", "critical"} \/ rem.dry_run) =>
              rem.callback = "none"

(* the registered callback was asked about a high action and approved it *)
C10_Witness ==
    /\ rem.op = "remediate" /\ ~rem.dry_run
    /\ rem.selected_severity = "high"
    /\ rem.callback # "none" /\ rem.approved
    /\ rem.executed = rem.selected

(* The eligibility of an action as the design states it, on the cluster as
   the call found it *)
Eligible(action, obs) ==
    IF action.name = "scale_up_deployment"
    THEN obs.issue.metric_name \in {"cpu_usage", "memory_usage"} /\ obs.pre_deployment.exists
    ELSE IF action.name = "restart_pod"
    THEN obs.issue.pod_name # "none" /\ obs.pre_pod_exists
    ELSE IF action.name = "circuit_breaker"
    THEN obs.issue.metric_name = "dependency_error_rate" /\ obs.issue.dependency # "none"
    ELSE obs.issue.handled

ClusterUntouched(obs) ==
    /\ deployment.replicas = obs.pre_deployment.replicas
    /\ pod_exists = obs.pre_pod_exists
    /\ breaker_enabled = obs.pre_breaker_enabled

(* C11: a remediate call with dry_run = True that reaches the selected
   action's execute gets a result with success = True and dry_run = True, no
   mutating call is made and the replica count, the pod and the breaker are
   as before. *)
C11_DryRunSucceeds ==
    (rem.op = "remediate" /\ rem.dry_run /\ rem.executed # "none") =>
        /\ ~rem.raised
        /\ rem.success
        /\ rem.execution_result.success /\ rem.execution_result.dry_run
        /\ ~rem.mutating_call
        /\ ClusterUntouched(rem)

(* C12: rollback of a remediation result whose success is False or absent
   fails with the message "Cannot rollback unsuccessful remediation", calls
   no action's rollback, touches nothing outside and appends nothing to the
   execution history. *)
C12_RollbackOfFailureRefused ==
    (rem.op = "rollback" /\ ~(rem.arg.has_success /\ rem.arg.success)) =>
        /\ ~rem.success /\ ~rem.raised
        /\ rem.message = "Cannot rollback unsuccessful remediation"
        /\ rem.executed = "none" /\ ~rem.mutating_call
        /\ ClusterUntouched(rem)
        /\ Len(execution_history) = rem.pre_len

(* the result of a remediate call that failed after selecting an action has
   been passed to rollback *)
C12_Witness ==
    /\ rem.op = "rollback"
    /\ rem.arg.has_success /\ ~rem.arg.success /\ rem.arg.action # "none"
    /\ rem.message = "Cannot rollback unsuccessful remediation"

(* C13: remediate and rollback never end in an exception: every failure of a
   call to the cluster or to the breaker API, the deployment disappearing
   between can_remediate and execute included, gives a returned result with
   success = False. *)
C13_NeverRaises == rem.op \in {"remediate", "rollback"} => ~rem.raised

(* C20: when no action of the catalog can remediate the issue, remediate
   fails with the message "No applicable remediation actions found", calls no
   approval callback and no execute, and appends nothing to the execution
   history. *)
C20_NoApplicableAction ==
    (rem.op = "remediate" /\ \A i \in 1..Len(actions) : ~Eligible(actions[i], rem)) =>
        /\ ~rem.success /\ ~rem.raised
        /\ rem.message = "No applicable remediation actions found"
        /\ rem.callback = "none" /\ rem.executed = "none" /\ ~rem.mutating_call
        /\ ClusterUntouched(rem)
        /\ Len(execution_history) = rem.pre_len

(* an issue that names a pod which no longer exists, and nothing else an
   action handles *)
C20_Witness ==
    /\ rem.op = "remediate"
    /\ rem.issue.pod_name # "none" /\ ~rem.pre_pod_exists
    /\ \A i \in 1..Len(actions) : ~Eligible(actions[i], rem)
    /\ rem.message = "No applicable remediation actions found"

(* C21: a registration replaces the callback of its severity and of no other
   severity, and a remediation consults only the callback registered last for
   the severity of the action it selected *)
C21_RegistrationPerSeverity ==
    [][/\ rem'.op = "register_approval_callback" =>
            /\ rem'.reg_severity \in DOMAIN approval_callbacks'
            /\ approval_callbacks'[rem'.reg_severity] = rem'.reg_callback
            /\ \A s \in (DOMAIN approval_callbacks \cup DOMAIN approval_callbacks')
                          \ {rem'.reg_severity} :
                   /\ s \in DOMAIN approval_callbacks
                   /\ s \in DOMAIN approval_callbacks'
                   /\ approval_callbacks'[s] = approval_callbacks[s]
       /\ (rem'.op = "remediate" /\ rem'.callback # "none") =>
            /\ rem'.selected_severity \in DOMAIN approval_callbacks'
            /\ rem'.callback = approval_callbacks'[rem'.selected_severity]
            /\ (rem.op = "register_approval_callback"
                  /\ rem.reg_severity = rem'.selected_severity) =>
                   rem'.callback = rem.reg_callback]_vars

C21_Witness ==
    /\ rem.op = "register_approval_callback"
    /\ rem.reg_replaced = "c1"
    /\ rem.reg_callback = "c2"
    /\ approval_callbacks[rem.reg_severity] = "c2"
    /\ \E s \in DOMAIN approval_callbacks : s # rem.reg_severity

InCatalog(action_name) == \E i \in 1..Len(actions) : actions[i].name = action_name

(* C22: rollback of a result with success = true whose action is in the
   catalog, whether or not the history holds an execution of it, runs that
   action's rollback on the result's execution payload and appends exactly one
   rollback record for it; the records already in the history stay as they
   were, in place *)
C22_RollbackAppendsOneRecord ==
    [][(/\ rem'.op = "rollback"
        /\ rem'.arg.has_success /\ rem'.arg.success
        /\ InCatalog(rem'.arg.action)) =>
          /\ rem'.executed = rem'.arg.action
          /\ Len(execution_history') = Len(execution_history) + 1
          /\ SubSeq(execution_history', 1, Len(execution_history)) = execution_history
          /\ LET record == execution_history'[Len(execution_history')]
             IN  /\ record.rollback
                 /\ record.action = rem'.arg.action
                 /\ record.result.new_replicas =
                        rem'.arg.execution_result.previous_replicas
                 /\ record.result.previous_replicas =
                        rem'.arg.execution_result.new_replicas]_vars

C22_Witness ==
    /\ rem.op = "rollback"
    /\ rem.arg.success
    /\ rem.arg.action = "scale_up_deployment"
    /\ Len(execution_history) = 2
    /\ ~execution_history[1].rollback
    /\ execution_history[2].rollback
    /\ execution_history[2].action = "scale_up_deployment"

(* rollback of a stored result: the action is in the catalog and not in the
   history *)
C22_WitnessNotInHistory ==
    /\ rem.op = "rollback"
    /\ rem.arg = StoredResult
    /\ Len(execution_history) = 1
    /\ execution_history[1].rollback

(* C23: a send_*_alert operation whose template is not configured returns
   false without raising and without calling AlertManager.send_alert: the
   dedupe cache, the rate counter and the history are as before *)
C23_MissingTemplate ==
    [][(call'.template # "none" /\ call'.template \notin templates') =>
          /\ ~call'.returned
          /\ ~call'.raised
          /\ UNCHANGED <<dedupe_cache, alert_count, last_reset, alert_history,
                         delivery_attempts, delivered, ev>>]_vars

C23_Witness ==
    /\ call.template # "none"
    /\ call.template \notin templates
    /\ ~call.returned
    /\ Len(alert_history) >= 1
    /\ alert_count >= 1

(* The count the rate check of the observed call compared with the limit *)
CountSeen(e) == IF e.window_reset THEN 0 ELSE e.pre_count

(* C24: the rate check comes before the duplicate check: a send that finds
   the window's count at the limit is rejected as rate-limited, also when its
   key is in the dedupe cache within the window, and a rate-limited rejection
   leaves the dedupe cache and the history unchanged *)
C24_RateCheckFirst ==
    [][/\ (ev'.op = "send" /\ CountSeen(ev') >= rate_limit) =>
            (ev'.outcome = "rate_limited" /\ ~ev'.result)
       /\ ev'.outcome = "rate_limited" =>
            UNCHANGED <<dedupe_cache, alert_history>>]_vars

C24_Witness ==
    /\ ev.op = "send"
    /\ ev.outcome = "rate_limited"
    /\ CountSeen(ev) >= rate_limit
    /\ ev.pre_seen
    /\ ev.t - ev.pre_seen_at < dedupe_window
    /\ Len(alert_history) = ev.pre_len

(* C25: a send rejected as a duplicate leaves alert_count as it is; each
   accepted send adds exactly 1 to it; it changes at no other time, except
   that a send that finds the window elapsed first sets it back to 0 *)
C25_CountPerAcceptedSend ==
    [][LET base == IF ev'.op = "send" /\ ev'.window_reset /\ ev'.t = now
                   THEN 0 ELSE alert_count
           accepted == Len(alert_history') = Len(alert_history) + 1
       IN  /\ accepted => (ev'.outcome = "accepted" /\ alert_count' = base + 1)
           /\ ~accepted => alert_count' \in {alert_count, 0}
           /\ (~accepted /\ alert_count' # alert_count) =>
                  (ev'.op = "send" /\ ev'.window_reset /\ ev'.outcome # "accepted")
           /\ (ev'.outcome = "duplicate" /\ ~ev'.window_reset) =>
                  alert_count' = alert_count]_vars

C25_Witness ==
    /\ ev.op = "send"
    /\ ev.outcome = "duplicate"
    /\ ~ev.window_reset
    /\ ev.pre_count >= 1
    /\ alert_count = ev.pre_count

(* A retry made while the dedupe cache holds the alert's key younger than
   dedupe_window *)
RetryInsideWindow(e) ==
    /\ e.op = "send"
    /\ e.by = "retry"
    /\ e.pre_seen
    /\ e.t - e.pre_seen_at < dedupe_window

(* the call invoked no sender and left the alert's delivery fields alone *)
NothingSent(e) ==
    /\ ~e.result
    /\ e.invoked = {}
    /\ delivery_attempts[e.alert] = e.pre_attempts
    /\ delivered[e.alert] = e.pre_delivered
    /\ Len(alert_history) = e.pre_len

(* C26, as stated: a retry made while the alert's dedupe entry is younger
   than dedupe_window is rejected as a duplicate, with no sender invoked and
   delivery_attempts and delivered unchanged *)
C26_RetryInsideWindowIsDuplicate ==
    RetryInsideWindow(ev) => (ev.outcome = "duplicate" /\ NothingSent(ev))

(* C26, amended: such a retry is rejected, with no sender invoked and
   delivery_attempts and delivered unchanged; it is rejected as a duplicate
   unless the window's count has reached the rate limit, and then as
   rate-limited *)
C26_RetryInsideWindowIsRejected ==
    RetryInsideWindow(ev) =>
        /\ ev.outcome = (IF CountSeen(ev) >= rate_limit THEN "rate_limited"
                         ELSE "duplicate")
        /\ NothingSent(ev)

C26_Witness ==
    /\ RetryInsideWindow(ev)
    /\ ev.outcome = "duplicate"
    /\ ev.pre_attempts >= 1
    /\ delivery_attempts[ev.alert] = ev.pre_attempts
    /\ ~delivered[ev.alert]

(* C27: on a retry tick send_alert is invoked exactly once for each alert
   of the history that is undelivered with delivery_attempts < max_retries:
   the sends a tick still has to make, failed_alerts, name no alert twice *)
C27_OnceForEachFailedAlert ==
    \A i, j \in 1..Len(failed_alerts) :
        failed_alerts[i] = failed_alerts[j] => i = j

(* C28: a remediate call that invokes execute appends exactly one record to
   the execution history, a call that ends before execute appends none, and
   no operation removes or changes a record the history already holds *)
C28_OneRecordPerExecute ==
    [][/\ rem'.op = "remediate" =>
            Len(execution_history') =
                rem'.pre_len + (IF rem'.executed # "none" THEN 1 ELSE 0)
       /\ Len(execution_history') >= Len(execution_history)
       /\ SubSeq(execution_history', 1, Len(execution_history)) = execution_history]_vars

(* The larger of one more and half as many again, rounded down *)
ScaledUp(current) ==
    CHOOSE n \in {current + 1, current + (current \div 2)} :
        \A m \in {current + 1, current + (current \div 2)} : n >= m

(* C29: a successful execute of scale_up_deployment that is not a dry run
   sets the replica count to max(current + 1, floor(1.5 * current)), which is
   greater than current for every current >= 0, and its result records
   previous_replicas = current and new_replicas = the count it set *)
C29_ScaleUpArithmetic ==
    (/\ rem.op = "remediate"
     /\ rem.executed = "scale_up_deployment"
     /\ ~rem.dry_run
     /\ rem.success) =>
        LET current == rem.pre_deployment.replicas
        IN  /\ deployment.replicas = ScaledUp(current)
            /\ deployment.replicas > current
            /\ rem.execution_result.previous_replicas = current
            /\ rem.execution_result.new_replicas = deployment.replicas

C29_Witness ==
    /\ rem.op = "remediate"
    /\ rem.executed = "scale_up_deployment"
    /\ ~rem.dry_run
    /\ rem.success
    /\ rem.pre_deployment.replicas = 0
    /\ deployment.replicas = 1

(* where floor(1.5 * current) is the larger of the two *)
C29_WitnessHalfMore ==
    /\ rem.op = "remediate"
    /\ rem.executed = "scale_up_deployment"
    /\ ~rem.dry_run
    /\ rem.success
    /\ rem.pre_deployment.replicas = 5
    /\ deployment.replicas = 7

(* C30: a rollback of scale_up_deployment that succeeds, given the result of
   a successful execute that was not a dry run, sets the replica count to the
   previous_replicas recorded in that result: when it directly follows the
   execute, the count is again what it was before the execute *)
C30_RollbackRestoresReplicas ==
    (/\ rem.op = "rollback"
     /\ rem.arg.action = "scale_up_deployment"
     /\ rem.arg.has_success /\ rem.arg.success
     /\ ~rem.arg.execution_result.dry_run
     /\ rem.success) =>
        /\ deployment.replicas = rem.arg.execution_result.previous_replicas
        /\ (/\ Len(execution_history) = 2
            /\ execution_history[1].result = rem.arg.execution_result
            /\ rem.pre_deployment.replicas = rem.arg.execution_result.new_replicas) =>
               ScaledUp(deployment.replicas) = rem.pre_deployment.replicas

C30_Witness ==
    /\ rem.op = "rollback"
    /\ rem.arg.action = "scale_up_deployment"
    /\ rem.arg.success
    /\ ~rem.arg.execution_result.dry_run
    /\ rem.success
    /\ rem.pre_deployment.replicas = 4
    /\ deployment.replicas = 3
    /\ Len(execution_history) = 2

(* C31: the rollback of restart_pod for any execution result, and the
   rollback of scale_up_deployment or circuit_breaker for a dry-run execution
   result, return success = true and make no external call: the deployment,
   the pod and the breaker are as the call found them *)
C31_NoOpRollbacks ==
    (/\ rem.op = "rollback"
     /\ rem.arg.has_success /\ rem.arg.success
     /\ \/ rem.executed = "restart_pod"
        \/ /\ rem.executed \in {"scale_up_deployment", "circuit_breaker"}
           /\ rem.arg.execution_result.dry_run) =>
        /\ rem.success
        /\ ~rem.mutating_call
        /\ deployment = rem.pre_deployment
        /\ pod_exists = rem.pre_pod_exists
        /\ breaker_enabled = rem.pre_breaker_enabled

C31_Witness ==
    /\ rem.op = "rollback"
    /\ rem.executed = "circuit_breaker"
    /\ rem.arg.execution_result.dry_run
    /\ rem.success
    /\ ~rem.mutating_call

C31_WitnessRestart ==
    /\ rem.op = "rollback"
    /\ rem.executed = "restart_pod"
    /\ ~rem.arg.execution_result.dry_run
    /\ rem.success
    /\ ~rem.pre_pod_exists

(* C32: while every sender call fails, an accepted alert that matches an
   enabled channel comes to delivery_attempts >= max_retries, and from then
   on the retry thread does not send it again: no step takes such an alert
   from the head of failed_alerts and calls send_alert for it *)
C32_NotResentAfterMaxRetries ==
    [][\A a \in Alerts :
          (/\ \A b \in Alerts : ~delivered[b]
           /\ MatchedNames(a) # {}
           /\ delivery_attempts[a] >= max_retries
           /\ failed_alerts # <<>>
           /\ Head(failed_alerts) = a) =>
              failed_alerts' = failed_alerts]_vars

(* the alerts a list names *)
Range(list) == {list[i] : i \in 1..Len(list)}

(* C33: an accepted alert that matches no enabled channel keeps
   delivered = false and delivery_attempts = 0 after every send, every retry
   scan collects it, and every tick sends the alerts its scan collected: an
   alert leaves failed_alerts only as its head, by the loop's send_alert *)
C33_UnmatchedResentEveryTick ==
    [][\A a \in Alerts :
          (MatchedNames(a) = {} /\ a \in Range(alert_history')) =>
              /\ ~delivered'[a]
              /\ delivery_attempts'[a] = 0
              /\ (/\ failed_alerts = <<>>
                  /\ a \in Range(alert_history)
                  /\ (failed_alerts' # <<>> \/ retry_wake' # retry_wake)) =>
                     a \in Range(failed_alerts')
              /\ (a \in Range(failed_alerts) /\ a \notin Range(failed_alerts')) =>
                     (Head(failed_alerts) = a /\ ev'.by = "retry" /\ ev'.alert = a)]_vars

(* C33, the part that holds: the same, for the ticks that no exception cuts
   short *)
C33_ResentWhileThreadRuns ==
    [][\A a \in Alerts :
          (MatchedNames(a) = {} /\ a \in Range(alert_history')) =>
              /\ ~delivered'[a]
              /\ delivery_attempts'[a] = 0
              /\ (/\ failed_alerts = <<>>
                  /\ a \in Range(alert_history)
                  /\ (failed_alerts' # <<>> \/ retry_wake' # retry_wake)) =>
                     a \in Range(failed_alerts')
              /\ (/\ a \in Range(failed_alerts)
                  /\ a \notin Range(failed_alerts')
                  /\ retry_thread' = "running") =>
                     (Head(failed_alerts) = a /\ ev'.by = "retry" /\ ev'.alert = a)]_vars

(* C34: the history gets one entry for every accepted send_alert call, fresh
   or retry, and changes in no other way: an accepted retry appends the same
   alert again, so an alert can stand several times in the history and in
   the list one retry scan collects *)
C34_OneEntryPerAcceptedSend ==
    [][/\ (ev' # ev /\ ev'.op = "send" /\ ev'.outcome = "accepted") =>
            alert_history' = Append(alert_history, ev'.alert)
       /\ alert_history' # alert_history =>
            /\ ev'.op = "send" /\ ev'.outcome = "accepted"
            /\ alert_history' = Append(alert_history, ev'.alert)
       /\ (failed_alerts = <<>> /\ failed_alerts' # <<>>) =>
            \A a \in Alerts :
               ~delivered[a] /\ delivery_attempts[a] < max_retries =>
                  Cardinality({i \in 1..Len(failed_alerts') : failed_alerts'[i] = a})
                     = Cardinality({i \in 1..Len(alert_history) : alert_history[i] = a})]_vars

C34_Witness ==
    /\ Len(alert_history) = 2
    /\ alert_history[1] = alert_history[2]
    /\ Len(failed_alerts) = 2
    /\ failed_alerts[1] = failed_alerts[2]
    /\ failed_alerts[1] = alert_history[1]

(* the observed call reached a channel that took the alert and a channel
   that did not *)
PartialSuccess(e) ==
    /\ e.op = "send"
    /\ e.succeeded # {}
    /\ e.invoked \ e.succeeded # {}

(* C35: after a send in which one matched channel succeeded and another
   failed the alert is delivered, and the retry thread does not send it
   again: no retry of it reaches the channel that failed *)
C35_NoRetryAfterPartialSuccess ==
    [][/\ PartialSuccess(ev') => delivered'[ev'.alert]
       /\ (/\ PartialSuccess(ev)
           /\ ev' # ev
           /\ ev'.by = "retry"
           /\ ev'.alert = ev.alert) =>
             ev'.invoked \cap (ev.invoked \ ev.succeeded) = {}]_vars

(* C36: a rejected send, rate-limited or duplicate, does not write the
   dedupe cache; the cache changes only when a send is accepted, which sets
   the entry of its key to the time of that send; so a send is rejected as a
   duplicate only less than dedupe_window after the last accepted send of
   its key, however many duplicates came in between *)
C36_RejectedSendLeavesCache ==
    [][/\ ev'.outcome \in {"rate_limited", "duplicate"} =>
            dedupe_cache' = dedupe_cache
       /\ dedupe_cache' # dedupe_cache =>
            /\ ev'.op = "send" /\ ev'.outcome = "accepted"
            /\ AlertAttr(ev'.alert).dedupe_key \in DOMAIN dedupe_cache'
            /\ dedupe_cache'[AlertAttr(ev'.alert).dedupe_key] = ev'.t
            /\ \A k \in DOMAIN dedupe_cache' \ {AlertAttr(ev'.alert).dedupe_key} :
                   k \in DOMAIN dedupe_cache /\ dedupe_cache'[k] = dedupe_cache[k]
       /\ (ev' # ev /\ ev'.outcome = "accepted") =>
            dedupe_cache'[AlertAttr(ev'.alert).dedupe_key] = ev'.t
       /\ ev'.outcome = "duplicate" =>
            (ev'.pre_seen /\ ev'.t - ev'.pre_seen_at < dedupe_window)]_vars

C36_Witness ==
    /\ ev.op = "send"
    /\ ev.outcome = "duplicate"
    /\ ev.t > ev.pre_seen_at
    /\ dedupe_cache[AlertAttr(ev.alert).dedupe_key] = ev.pre_seen_at


(* C37: two alerts built without a dedupe key, with the same source and the
   same title and with timestamps in different calendar minutes, have
   different keys, and neither is rejected as a duplicate of the other: a
   send is rejected as a duplicate only when an accepted alert of the same
   source, title and calendar minute is in the history. *)
CalendarMinute(a) == AlertAttr(a).timestamp \div 60

SameSourceAndTitle(a, b) ==
    /\ AlertAttr(a).source = AlertAttr(b).source
    /\ AlertAttr(a).title = AlertAttr(b).title

C37_DifferentMinutesNeverDuplicates ==
    /\ \A a, b \in TemplateAlerts :
          (SameSourceAndTitle(a, b) /\ CalendarMinute(a) # CalendarMinute(b)) =>
              AlertAttr(a).dedupe_key # AlertAttr(b).dedupe_key
    /\ (ev.op = "send" /\ ev.alert \in TemplateAlerts /\ ev.outcome = "duplicate") =>
          \E b \in Range(alert_history) :
              /\ SameSourceAndTitle(ev.alert, b)
              /\ CalendarMinute(ev.alert) = CalendarMinute(b)

(* the alert of minute 1 is accepted one second after the alert of minute 0
   with the same source and title was *)
C37_Witness ==
    /\ ev.op = "send" /\ ev.alert = "d60" /\ ev.outcome = "accepted"
    /\ "d59" \in Range(alert_history)
    /\ AlertAttr("d59").dedupe_key \in DOMAIN dedupe_cache
    /\ ev.t - dedupe_cache[AlertAttr("d59").dedupe_key] < dedupe_window

(* within one calendar minute the second alert is rejected as a duplicate *)
C37_WitnessSameMinute ==
    /\ ev.op = "send" /\ ev.alert = "d1" /\ ev.outcome = "duplicate"
    /\ "d0" \in Range(alert_history)


(* C38: a call of remediate runs execute on at most one action, the first
   candidate of the sorted list; when the approval of that candidate is
   missing or denied, nothing is executed: no other applicable action is
   tried, the history and the external systems stay as the call found
   them. *)
FirstCandidate(obs) == sort_by_severity(obs.applicable)[1]

ApprovalWithheld(obs) ==
    /\ FirstCandidate(obs).requires_approval
    /\ ~obs.dry_run
    /\ ~obs.approved

C38_OnlyFirstCandidateExecuted ==
    (rem.op = "remediate" /\ rem.applicable # <<>>) =>
        /\ rem.executed \in {"none", FirstCandidate(rem).name}
        /\ Len(execution_history) <= rem.pre_len + 1
        /\ \A i \in (rem.pre_len + 1)..Len(execution_history) :
              execution_history[i].action = FirstCandidate(rem).name
        /\ ApprovalWithheld(rem) =>
              /\ rem.executed = "none"
              /\ Len(execution_history) = rem.pre_len
              /\ deployment = rem.pre_deployment
              /\ pod_exists = rem.pre_pod_exists
              /\ breaker_enabled = rem.pre_breaker_enabled

(* the approval of the first candidate is denied while a further candidate
   that needs no approval is applicable *)
C38_Witness ==
    /\ rem.op = "remediate"
    /\ rem.message = "Remediation action not approved"
    /\ rem.executed = "none"
    /\ \E i \in 2..Len(rem.applicable) : ~rem.applicable[i].requires_approval

(* no callback is registered for the first candidate's severity *)
C38_WitnessNoCallback ==
    /\ rem.op = "remediate"
    /\ Len(rem.applicable) >= 2
    /\ rem.registered = "none"
    /\ ApprovalWithheld(rem)
    /\ rem.executed = "none"

(* the first of several candidates is executed *)
C38_WitnessExecuted ==
    /\ rem.op = "remediate"
    /\ Len(rem.applicable) >= 2
    /\ rem.executed = FirstCandidate(rem).name
    /\ Len(execution_history) = rem.pre_len + 1


(* C39: of the applicable actions with the least severity rank, remediate
   selects the one that stands first in the catalog; with scale_up_deployment
   and restart_pod both applicable it selects scale_up_deployment. *)
EarliestLeastSevere(applicable) ==
    LET rank(i) == severity_order(applicable[i].severity)
        first == CHOOSE i \in 1..Len(applicable) :
                    /\ \A j \in 1..Len(applicable) : rank(i) <= rank(j)
                    /\ \A j \in 1..(i - 1) : rank(j) > rank(i)
    IN  applicable[first]

CatalogIndex(name) == CHOOSE i \in 1..Len(actions) : actions[i].name = name

C39_TieGoesToEarliestRegistered ==
    (rem.op = "remediate" /\ rem.applicable # <<>>) =>
        /\ rem.selected = EarliestLeastSevere(rem.applicable).name
        /\ \A i \in 1..Len(rem.applicable) :
              (/\ rem.applicable[i].severity = rem.selected_severity
               /\ rem.applicable[i].name # rem.selected) =>
                  CatalogIndex(rem.selected) < CatalogIndex(rem.applicable[i].name)
        /\ rem.executed \in {"none", rem.selected}

(* scale_up_deployment and restart_pod both apply, and scale_up_deployment is
   selected and executed *)
C39_Witness ==
    /\ rem.op = "remediate"
    /\ \E i \in 1..Len(rem.applicable) : rem.applicable[i].name = "restart_pod"
    /\ \E i \in 1..Len(rem.applicable) : rem.applicable[i].name = "scale_up_deployment"
    /\ rem.selected = "scale_up_deployment"
    /\ rem.executed = "scale_up_deployment"


(* C40: a successful remediation result that has been rolled back is rolled
   back again when the caller asks for it: the action's rollback runs and
   one more rollback record is appended.  After a first rollback that
   succeeded the second leaves deployment, pod and breaker as they were, and
   a second rollback that succeeds leaves the replicas at previous_replicas
   and the breaker disabled. *)
RolledBackAgain ==
    /\ rem.op = "rollback"
    /\ rem'.op = "rollback"
    /\ rem' # rem
    /\ rem'.arg = rem.arg
    /\ rem.arg.has_success /\ rem.arg.success
    /\ InCatalog(rem.arg.action)

LastRecord(history) == history[Len(history)]

C40_SecondRollbackAcceptedAndIdempotent ==
    [][RolledBackAgain =>
          /\ rem'.executed = rem.arg.action
          /\ Len(execution_history') = Len(execution_history) + 1
          /\ Len(execution_history') = rem.pre_len + 2
          /\ LastRecord(execution_history').rollback
          /\ LastRecord(execution_history').action = rem.arg.action
          /\ rem.success =>
                UNCHANGED <<deployment, pod_exists, breaker_enabled>>
          /\ (/\ rem'.success
              /\ rem.arg.action = "scale_up_deployment"
              /\ ~rem.arg.execution_result.dry_run) =>
                deployment'.replicas = rem.arg.execution_result.previous_replicas
          /\ (/\ rem'.success
              /\ rem.arg.action = "circuit_breaker"
              /\ ~rem.arg.execution_result.dry_run) =>
                ~breaker_enabled']_vars

(* a scale-up that was carried out has been rolled back twice, both times
   with success *)
C40_Witness ==
    /\ rem.op = "rollback"
    /\ rem.arg.action = "scale_up_deployment"
    /\ rem.arg.success /\ ~rem.arg.execution_result.dry_run
    /\ rem.success
    /\ Len(execution_history) = 3
    /\ execution_history[1].result = rem.arg.execution_result
    /\ execution_history[2].rollback /\ execution_history[2].result.success
    /\ execution_history[3].rollback /\ execution_history[3].result.success
    /\ deployment.replicas = rem.arg.execution_result.previous_replicas
    /\ rem.arg.execution_result.new_replicas > rem.arg.execution_result.previous_replicas

(* the breaker that a remediation enabled has been rolled back twice *)
C40_WitnessBreaker ==
    /\ rem.op = "rollback"
    /\ rem.arg.action = "circuit_breaker"
    /\ rem.success
    /\ Len(execution_history) = 3
    /\ execution_history[1].result = rem.arg.execution_result
    /\ execution_history[1].result.success /\ ~execution_history[1].result.dry_run
    /\ execution_history[2].rollback /\ execution_history[2].result.success
    /\ execution_history[3].rollback
    /\ ~breaker_enabled

=============================================================================
